---------------------------- MODULE Spec2Model ----------------------------
(***************************************************************************)
(* The real-time synchronization engine of the AlphaHunter dashboard       *)
(* (HomeView): one WebSocket, its four event handlers, the message router  *)
(* inside onmessage, and the reactive slices the router and the view       *)
(* write.  Three revisions of the component are in the repository:         *)
(*   "V50"  src/frontend/src/views/HomeView.vue  (typed envelopes,         *)
(*          try/catch, strategic slice = message.data)                     *)
(*   "V45"  src/Dockerfile, lines 21-314         (typed envelopes, no      *)
(*          try/catch, strategic slice = data.strategic_opportunities)     *)
(*   "V40"  src/unnamed/part_000                 (untyped messages,        *)
(*          try/catch, sell alerts prepended, no unmount hook)             *)
(* The variable rev fixes which revision is running.                       *)
(*                                                                         *)
(* JavaScript values are records [k, items]: k is the kind of the value    *)
(* ("undefined", "null", "string", "array", "object"), items the elements  *)
(* of an array (the characters of a string).  Opportunities and alerts     *)
(* are identified by their ticker.                                         *)
(***************************************************************************)
EXTENDS Naturals, Sequences, FiniteSets

VARIABLES
    rev,                     \* which revision of HomeView is running
    connectionStatus,        \* ref: "Connecting" | "Connected" | "Error" | "Disconnected"
    opportunities,           \* ref: tactical slice
    sellAlerts,              \* ref: sell-alert slice
    strategicOpportunities,  \* ref: strategic slice
    selectedTicker,          \* ref: "none" (null) or a ticker
    activeTab,               \* ref: "realtime" | "strategic"
    readyState,              \* socket.readyState
    pending,                 \* event the user agent dispatches next in the current task
    mounted,                 \* the component is mounted
    event                    \* what the last handler or hook ran on: the MessageEvent
                             \* of onmessage, the click of a toggle, the environment
                             \* of onMounted

vars == <<rev, connectionStatus, opportunities, sellAlerts, strategicOpportunities,
          selectedTicker, activeTab, readyState, pending, mounted, event>>

slices == <<opportunities, sellAlerts, strategicOpportunities, selectedTicker>>
feed == <<opportunities, sellAlerts, strategicOpportunities>>

-----------------------------------------------------------------------------
(* Bounds of the model *)

\* longest list of opportunities (tactical or strategic) one message carries
MaxLen == 2
\* longest sell_alerts batch (and legacy strategic list) one message carries
MaxBatch == 2
\* longest sell-alert history the V40 revision is followed to
MaxHistory == 3

Revisions == {"V40", "V45", "V50"}
Tickers == {"A", "B"}

-----------------------------------------------------------------------------
(* JavaScript values *)

Undefined == [k |-> "undefined", items |-> <<>>]
Null == [k |-> "null", items |-> <<>>]
\* a non-empty string: truthy, has a length, is no array
Str == [k |-> "string", items |-> <<"x">>]
Arr(s) == [k |-> "array", items |-> s]
EmptyArray == Arr(<<>>)

\* a value read as message.data: a scalar or array (its three fields read
\* undefined), or an object with the fields the router reads
Plain(v) ==
    [k |-> v.k, items |-> v.items, new_opportunities |-> Undefined,
     sell_alerts |-> Undefined, strategic_opportunities |-> Undefined]
Obj(n, s, g) ==
    [k |-> "object", items |-> <<>>, new_opportunities |-> n,
     sell_alerts |-> s, strategic_opportunities |-> g]

\* the value of `v || []`: undefined, null and the empty string are falsy
Truthy(v) == v.k \notin {"undefined", "null"} /\ ~(v.k = "string" /\ v.items = <<>>)
OrEmpty(v) == IF Truthy(v) THEN v ELSE EmptyArray
OrEmptyData(d) == IF Truthy(d) THEN d ELSE Plain(EmptyArray)

\* reading a property of undefined or null throws a TypeError
ReadThrows(v) == v.k \in {"undefined", "null"}

IsArray(v) == v.k = "array"

-----------------------------------------------------------------------------
(* Inbound payloads: event.data is text; JSON.parse turns it into a value   *)
(* or throws a SyntaxError.                                                 *)

\* The lists a message can carry: consecutive entries of the scan order
\* A, A, B, A, A, B, ...  A list of opportunities is any run of up to MaxLen
\* entries: the empty list, both orders of two different tickers, a list
\* naming one ticker twice.  A batch of alerts (and a legacy strategic list)
\* is a run of up to MaxBatch entries from the third on: B, then B, A.
ScanOrder == <<"A", "A", "B">>
Run(start, n) == [j \in 1..n |-> ScanOrder[((start + j - 2) % Len(ScanOrder)) + 1]]
Runs(max) == {Run(start, n) : start \in 1..Len(ScanOrder), n \in 0..max}
Snapshots == Runs(MaxLen)
Batches == {Run(Len(ScanOrder), n) : n \in 0..MaxBatch}
\* what a field of data can hold: absent, null, a string, a list
FieldValues == {Undefined, Null, Str} \cup {Arr(s) : s \in Snapshots}
AlertValues == {Undefined, Str} \cup {Arr(s) : s \in Batches}
LegacyValues == {Undefined, Null, Str} \cup {Arr(s) : s \in Batches}

\* a parsed JSON value as the router reads it: its type and data properties,
\* and the top-level new_opportunities / sell_alerts the V40 protocol used
Value(kind, t, d, n, s) ==
    [k |-> kind, type |-> t, data |-> d, new_opportunities |-> n, sell_alerts |-> s]
Envelope(t, d) == Value("object", t, d, Undefined, Undefined)
NoType == "undefined"
Scalar(kind) == Value(kind, NoType, Plain(Undefined), Undefined, Undefined)

RealtimeData == {Obj(n, s, Undefined) : n \in FieldValues, s \in AlertValues}
LegacyStrategicData == {Obj(Undefined, Undefined, g) : g \in LegacyValues}
ArrayData == {Plain(Arr(s)) : s \in Snapshots}
ScalarData == {Plain(Undefined), Plain(Null), Plain(Str)}
SampleData == {Obj(Arr(<<"A">>), Arr(<<"B">>), Arr(<<"A">>))}

RealtimeEnvelopes == {Envelope("REALTIME_UPDATE", d) : d \in RealtimeData \cup ScalarData}
StrategicEnvelopes ==
    {Envelope("STRATEGIC_UPDATE", d) : d \in ArrayData \cup LegacyStrategicData \cup ScalarData}
UnknownEnvelopes == {Envelope("HEARTBEAT", d) : d \in SampleData}
UntypedEnvelopes == {Envelope(NoType, d) : d \in SampleData}
NonEnvelopes == {Scalar("null")}
\* messages of the V40 protocol: the two lists at top level, no type, no data
V40Messages ==
    {Value("object", NoType, Plain(Undefined), n, s) : n \in FieldValues, s \in AlertValues}

Text(v) == [text |-> "json", value |-> v]
Garbage == [text |-> "garbage", value |-> Scalar("null")]

Parses(p) == p.text = "json"
JSONParse(p) == p.value

\* the texts the backend of each protocol generation can push
Payloads(r) ==
    {Garbage} \cup {Text(v) : v \in NonEnvelopes} \cup
    IF r = "V40"
    THEN {Text(v) : v \in V40Messages}
    ELSE {Text(v) : v \in RealtimeEnvelopes \cup StrategicEnvelopes
                          \cup UnknownEnvelopes \cup UntypedEnvelopes}

-----------------------------------------------------------------------------
(* The message router: the body of onmessage, as a function from the text   *)
(* and the current feed slices to the feed slices afterwards.               *)

Feed(o, s, g, res) ==
    [opportunities |-> o, sellAlerts |-> s, strategicOpportunities |-> g, outcome |-> res]
Keep(cur, res) ==
    Feed(cur.opportunities, cur.sellAlerts, cur.strategicOpportunities, res)

\* RouteRealtime with the new opportunities appended to the old list
RouteRealtimeMerging(m, cur) ==
    IF ReadThrows(m.data) THEN Keep(cur, "thrown")
    ELSE Feed(Arr(cur.opportunities.items \o OrEmpty(m.data.new_opportunities).items),
              OrEmpty(m.data.sell_alerts), cur.strategicOpportunities, "realtime")

\* RouteRealtime that keeps the old alerts when the message carries none
RouteRealtimeTorn(m, cur) ==
    IF ReadThrows(m.data) THEN Keep(cur, "thrown")
    ELSE Feed(OrEmpty(m.data.new_opportunities),
              IF Truthy(m.data.sell_alerts) THEN m.data.sell_alerts ELSE cur.sellAlerts,
              cur.strategicOpportunities, "realtime")

\* RouteRealtime with the new alerts put in front of the old ones
RouteRealtimePrepending(m, cur) ==
    IF ReadThrows(m.data) THEN Keep(cur, "thrown")
    ELSE Feed(OrEmpty(m.data.new_opportunities),
              Arr(OrEmpty(m.data.sell_alerts).items \o cur.sellAlerts.items),
              cur.strategicOpportunities, "realtime")

RouteRealtime(m, cur) ==
    IF ReadThrows(m.data) THEN Keep(cur, "thrown")
    ELSE Feed(OrEmpty(m.data.new_opportunities), OrEmpty(m.data.sell_alerts),
              cur.strategicOpportunities, "realtime")

\* RouteStrategicV50 with the new snapshot appended to the old one
RouteStrategicMerging(m, cur) ==
    Feed(cur.opportunities, cur.sellAlerts,
         Plain(Arr(cur.strategicOpportunities.items \o OrEmptyData(m.data).items)),
         "strategic")

\* RouteStrategicV50 that also empties the realtime slices
RouteStrategicClearing(m, cur) ==
    Feed(EmptyArray, EmptyArray, OrEmptyData(m.data), "strategic")

RouteStrategicV50(m, cur) ==
    Feed(cur.opportunities, cur.sellAlerts, OrEmptyData(m.data), "strategic")

RouteStrategicV45(m, cur) ==
    IF ReadThrows(m.data) THEN Keep(cur, "thrown")
    ELSE Feed(cur.opportunities, cur.sellAlerts,
              Plain(OrEmpty(m.data.strategic_opportunities)), "strategic")

\* RouteV50 with a catch block that resets the feed slices
RouteV50ResetOnError(p, cur) ==
    LET reset == Feed(EmptyArray, EmptyArray, Plain(EmptyArray), "thrown") IN
    IF ~Parses(p) THEN reset
    ELSE LET message == JSONParse(p) IN
         IF ReadThrows(message) THEN reset
         ELSE IF message.type = "REALTIME_UPDATE" THEN RouteRealtime(message, cur)
         ELSE IF message.type = "STRATEGIC_UPDATE" THEN RouteStrategicV50(message, cur)
         ELSE reset

\* RouteV50 with a plain else: every type but REALTIME_UPDATE is taken for a
\* strategic update
RouteV50DefaultBranch(p, cur) ==
    IF ~Parses(p) THEN Keep(cur, "thrown")
    ELSE LET message == JSONParse(p) IN
         IF ReadThrows(message) THEN Keep(cur, "thrown")
         ELSE IF message.type = "REALTIME_UPDATE" THEN RouteRealtime(message, cur)
         ELSE RouteStrategicV50(message, cur)

\* HomeView.vue: everything inside try/catch
RouteV50(p, cur) ==
    IF ~Parses(p) THEN Keep(cur, "thrown")
    ELSE LET message == JSONParse(p) IN
         IF ReadThrows(message) THEN Keep(cur, "thrown")
         ELSE IF message.type = "REALTIME_UPDATE" THEN RouteRealtime(message, cur)
         ELSE IF message.type = "STRATEGIC_UPDATE" THEN RouteStrategicV50(message, cur)
         ELSE Keep(cur, "ignored")

\* src/Dockerfile: no try/catch, an exception ends the handler
RouteV45(p, cur) ==
    IF ~Parses(p) THEN Keep(cur, "thrown")
    ELSE LET message == JSONParse(p) IN
         IF ReadThrows(message) THEN Keep(cur, "thrown")
         ELSE IF message.type = "REALTIME_UPDATE" THEN RouteRealtime(message, cur)
         ELSE IF message.type = "STRATEGIC_UPDATE" THEN RouteStrategicV45(message, cur)
         ELSE Keep(cur, "ignored")

\* the length property: arrays and strings have one
HasItems(v) == v.k \in {"array", "string"} /\ Len(v.items) > 0

\* a prepend that keeps only the newest MaxBatch alerts
PrependCapped(batch, history) ==
    LET all == batch.items \o history.items IN
    Arr(SubSeq(all, 1, IF Len(all) > MaxBatch THEN MaxBatch ELSE Len(all)))

\* [...data.sell_alerts, ...sellAlerts.value]
Prepend(batch, history) == Arr(batch.items \o history.items)

\* part_000: no envelope, the two lists are read off the message itself
RouteV40(p, cur) ==
    IF ~Parses(p) THEN Keep(cur, "thrown")
    ELSE LET data == JSONParse(p) IN
         IF ReadThrows(data) THEN Keep(cur, "thrown")
         ELSE Feed(IF Truthy(data.new_opportunities)
                     THEN data.new_opportunities ELSE cur.opportunities,
                   IF Truthy(data.sell_alerts) /\ HasItems(data.sell_alerts)
                     THEN Prepend(data.sell_alerts, cur.sellAlerts) ELSE cur.sellAlerts,
                   cur.strategicOpportunities, "realtime")

Route(r, p, cur) ==
    CASE r = "V50" -> RouteV50(p, cur)
      [] r = "V45" -> RouteV45(p, cur)
      [] r = "V40" -> RouteV40(p, cur)

Current == Feed(opportunities, sellAlerts, strategicOpportunities, "none")

-----------------------------------------------------------------------------
(* State after setup() and onMounted: the refs hold their initial values,   *)
(* connectWebSocket has created the socket and registered the handlers.     *)

\* import.meta.env.VITE_APP_WEBSOCKET_URL: not defined, defined empty
\* (VITE_APP_WEBSOCKET_URL= in the .env file), or an address
EmptyString == [k |-> "string", items |-> <<>>]
ConfiguredUrl == [k |-> "string", items |-> <<"wss://dashboard.example/ws">>]
EnvValues == {Undefined, EmptyString, ConfiguredUrl}
DefaultUrl == [k |-> "string", items |-> <<"ws://localhost:8000/ws/dashboard">>]

\* the fallback with ?? in place of ||: only an undefined value gives the default
WsUrlNullish(env) == IF env.k = "undefined" THEN DefaultUrl ELSE env

\* const wsUrl = import.meta.env.VITE_APP_WEBSOCKET_URL || '<default>'
WsUrl(env) == IF Truthy(env) THEN env ELSE DefaultUrl

NoEvent == [kind |-> "none", data |-> Garbage]
\* onMounted: the environment value connectWebSocket read and the address it
\* passed to new WebSocket
MountedEvent(env) ==
    [kind |-> "mounted", data |-> Garbage, env |-> env, wsUrl |-> WsUrl(env)]
MessageEvent(p) == [kind |-> "message", data |-> p]
\* @click="toggleRow(opp.ticker)": the click, the ticker it passes and the
\* selection the handler found
ClickEvent(ticker, was) ==
    [kind |-> "click", data |-> Garbage, ticker |-> ticker, was |-> was]

Init ==
    /\ rev \in Revisions
    /\ connectionStatus = "Connecting"
    /\ opportunities = EmptyArray
    /\ sellAlerts = EmptyArray
    /\ strategicOpportunities = Plain(EmptyArray)
    /\ selectedTicker = "none"
    /\ activeTab = "realtime"
    /\ readyState = "CONNECTING"
    /\ pending = "none"
    /\ mounted = TRUE
    /\ \E env \in EnvValues : event = MountedEvent(env)

-----------------------------------------------------------------------------
(* The WebSocket handlers.  The user agent dispatches open once the         *)
(* handshake succeeds, message only while readyState is OPEN, and on a      *)
(* failed connection error followed at once by close.                       *)

\* onopen writing the status of onclose
OnOpenWrongStatus ==
    /\ pending = "none"
    /\ readyState = "CONNECTING"
    /\ readyState' = "OPEN"
    /\ connectionStatus' = "Disconnected"
    /\ event' = NoEvent
    /\ UNCHANGED <<rev, opportunities, sellAlerts, strategicOpportunities,
                   selectedTicker, activeTab, pending, mounted>>

\* socket.onopen
OnOpen ==
    /\ pending = "none"
    /\ readyState = "CONNECTING"
    /\ readyState' = "OPEN"
    /\ connectionStatus' = "Connected"
    /\ event' = NoEvent
    /\ UNCHANGED <<rev, opportunities, sellAlerts, strategicOpportunities,
                   selectedTicker, activeTab, pending, mounted>>

\* onmessage in which an exception takes the connection down
OnMessageCrashing(p) ==
    /\ pending = "none"
    /\ readyState = "OPEN"
    /\ LET next == Route(rev, p, Current) IN
         /\ Len(next.sellAlerts.items) <= MaxHistory
         /\ opportunities' = next.opportunities
         /\ sellAlerts' = next.sellAlerts
         /\ strategicOpportunities' = next.strategicOpportunities
         /\ readyState' = IF next.outcome = "thrown" THEN "CLOSED" ELSE readyState
         /\ connectionStatus' =
                IF next.outcome = "thrown" THEN "Error" ELSE connectionStatus
    /\ event' = MessageEvent(p)
    /\ UNCHANGED <<rev, selectedTicker, activeTab, pending, mounted>>

\* onmessage that drops a selection the new tactical list no longer holds
OnMessageDeselecting(p) ==
    /\ pending = "none"
    /\ readyState = "OPEN"
    /\ LET next == Route(rev, p, Current) IN
         /\ Len(next.sellAlerts.items) <= MaxHistory
         /\ opportunities' = next.opportunities
         /\ sellAlerts' = next.sellAlerts
         /\ strategicOpportunities' = next.strategicOpportunities
         /\ selectedTicker' =
                IF \E i \in 1..Len(next.opportunities.items) :
                       next.opportunities.items[i] = selectedTicker
                THEN selectedTicker ELSE "none"
    /\ event' = MessageEvent(p)
    /\ UNCHANGED <<rev, connectionStatus, activeTab, readyState, pending, mounted>>

\* socket.onmessage
OnMessage(p) ==
    /\ pending = "none"
    /\ readyState = "OPEN"
    /\ LET next == Route(rev, p, Current) IN
         /\ Len(next.sellAlerts.items) <= MaxHistory
         /\ opportunities' = next.opportunities
         /\ sellAlerts' = next.sellAlerts
         /\ strategicOpportunities' = next.strategicOpportunities
    /\ event' = MessageEvent(p)
    /\ UNCHANGED <<rev, connectionStatus, selectedTicker, activeTab, readyState,
                   pending, mounted>>

\* onerror that also empties the feed slices
OnErrorClearing ==
    /\ \/ pending = "error"
       \/ pending = "none" /\ readyState \in {"CONNECTING", "OPEN", "CLOSING"}
    /\ readyState' = "CLOSED"
    /\ pending' = "close"
    /\ connectionStatus' = "Error"
    /\ opportunities' = EmptyArray
    /\ sellAlerts' = EmptyArray
    /\ strategicOpportunities' = Plain(EmptyArray)
    /\ event' = NoEvent
    /\ UNCHANGED <<rev, selectedTicker, activeTab, mounted>>

\* socket.onerror: the connection failed (or was closed before it was
\* established); the close event follows in the same task
OnError ==
    /\ \/ pending = "error"
       \/ pending = "none" /\ readyState \in {"CONNECTING", "OPEN", "CLOSING"}
    /\ readyState' = "CLOSED"
    /\ pending' = "close"
    /\ connectionStatus' = "Error"
    /\ event' = NoEvent
    /\ UNCHANGED <<rev, opportunities, sellAlerts, strategicOpportunities,
                   selectedTicker, activeTab, mounted>>

\* onclose that also empties the slices
OnCloseResetting ==
    /\ \/ pending = "close"
       \/ pending = "none" /\ readyState \in {"OPEN", "CLOSING"}
    /\ readyState' = "CLOSED"
    /\ pending' = "none"
    /\ connectionStatus' = "Disconnected"
    /\ opportunities' = EmptyArray
    /\ sellAlerts' = EmptyArray
    /\ strategicOpportunities' = Plain(EmptyArray)
    /\ selectedTicker' = "none"
    /\ event' = NoEvent
    /\ UNCHANGED <<rev, activeTab, mounted>>

\* onclose that leaves the status as it is
OnCloseSilent ==
    /\ \/ pending = "close"
       \/ pending = "none" /\ readyState \in {"OPEN", "CLOSING"}
    /\ readyState' = "CLOSED"
    /\ pending' = "none"
    /\ event' = NoEvent
    /\ UNCHANGED <<rev, connectionStatus, opportunities, sellAlerts,
                   strategicOpportunities, selectedTicker, activeTab, mounted>>

\* onclose that calls connectWebSocket again
OnCloseReconnecting ==
    /\ \/ pending = "close"
       \/ pending = "none" /\ readyState \in {"OPEN", "CLOSING"}
    /\ readyState' = "CONNECTING"
    /\ pending' = "none"
    /\ connectionStatus' = "Disconnected"
    /\ event' = NoEvent
    /\ UNCHANGED <<rev, opportunities, sellAlerts, strategicOpportunities,
                   selectedTicker, activeTab, mounted>>

\* onclose writing a status that is none of the four
OnCloseFifthStatus ==
    /\ \/ pending = "close"
       \/ pending = "none" /\ readyState \in {"OPEN", "CLOSING"}
    /\ readyState' = "CLOSED"
    /\ pending' = "none"
    /\ connectionStatus' = "Closed"
    /\ event' = NoEvent
    /\ UNCHANGED <<rev, opportunities, sellAlerts, strategicOpportunities,
                   selectedTicker, activeTab, mounted>>

\* socket.onclose: after an error, or a clean close of an established connection
OnClose ==
    /\ \/ pending = "close"
       \/ pending = "none" /\ readyState \in {"OPEN", "CLOSING"}
    /\ readyState' = "CLOSED"
    /\ pending' = "none"
    /\ connectionStatus' = "Disconnected"
    /\ event' = NoEvent
    /\ UNCHANGED <<rev, opportunities, sellAlerts, strategicOpportunities,
                   selectedTicker, activeTab, mounted>>

\* socket.close() as onUnmounted calls it: closing before the connection is
\* established fails it, closing an open connection starts the closing handshake
SocketClose ==
    CASE readyState = "CONNECTING" -> [readyState |-> "CLOSING", pending |-> "error"]
      [] readyState = "OPEN" -> [readyState |-> "CLOSING", pending |-> "none"]
      [] OTHER -> [readyState |-> readyState, pending |-> pending]

\* whether the revision registers an onUnmounted hook that closes the socket
ClosesOnUnmount(r) == r \in {"V45", "V50"}

\* the component is unmounted; onUnmounted runs where it is registered
OnUnmounted ==
    /\ pending = "none"
    /\ mounted
    /\ mounted' = FALSE
    /\ LET after == IF ClosesOnUnmount(rev) THEN SocketClose
                    ELSE [readyState |-> readyState, pending |-> pending] IN
         /\ readyState' = after.readyState
         /\ pending' = after.pending
    /\ event' = NoEvent
    /\ UNCHANGED <<rev, connectionStatus, opportunities, sellAlerts,
                   strategicOpportunities, selectedTicker, activeTab>>

-----------------------------------------------------------------------------
(* The view: clicks on the rows and cards that are rendered.                *)

\* a toggle that never collapses: the clicked ticker is selected
ToggleNeverCollapses(selected, ticker) == ticker

\* a toggle that keeps the first selection when another ticker is clicked
ToggleKeepsFirst(selected, ticker) ==
    IF selected = "none" THEN ticker
    ELSE IF selected = ticker THEN "none" ELSE selected

\* toggleRow / toggleAccordion
Toggle(selected, ticker) == IF selected = ticker THEN "none" ELSE ticker

\* the tickers a list renders (v-for over the slice)
Rendered(v) == IF IsArray(v) THEN {v.items[i] : i \in 1..Len(v.items)} ELSE {}

\* click on a row of the tactical table
ToggleRow(ticker) ==
    /\ pending = "none"
    /\ mounted
    /\ activeTab = "realtime"
    /\ ticker \in Rendered(opportunities)
    /\ selectedTicker' = Toggle(selectedTicker, ticker)
    /\ event' = ClickEvent(ticker, selectedTicker)
    /\ UNCHANGED <<rev, connectionStatus, opportunities, sellAlerts,
                   strategicOpportunities, activeTab, readyState, pending, mounted>>

\* toggleAccordion that only ever opens: the clicked card is selected
ToggleAccordionNoCollapse(ticker) ==
    /\ pending = "none"
    /\ mounted
    /\ rev = "V50"
    /\ activeTab = "strategic"
    /\ ticker \in Rendered(strategicOpportunities)
    /\ selectedTicker' = ticker
    /\ event' = ClickEvent(ticker, selectedTicker)
    /\ UNCHANGED <<rev, connectionStatus, opportunities, sellAlerts,
                   strategicOpportunities, activeTab, readyState, pending, mounted>>

\* click on the accordion button of a strategic card (HomeView.vue only)
ToggleAccordion(ticker) ==
    /\ pending = "none"
    /\ mounted
    /\ rev = "V50"
    /\ activeTab = "strategic"
    /\ ticker \in Rendered(strategicOpportunities)
    /\ selectedTicker' = Toggle(selectedTicker, ticker)
    /\ event' = ClickEvent(ticker, selectedTicker)
    /\ UNCHANGED <<rev, connectionStatus, opportunities, sellAlerts,
                   strategicOpportunities, activeTab, readyState, pending, mounted>>

\* click on a tab button (the revisions with tabs)
SetActiveTab(tab) ==
    /\ pending = "none"
    /\ mounted
    /\ rev \in {"V45", "V50"}
    /\ activeTab' = tab
    /\ event' = NoEvent
    /\ UNCHANGED <<rev, connectionStatus, opportunities, sellAlerts,
                   strategicOpportunities, selectedTicker, readyState, pending, mounted>>

Next ==
    \/ OnOpen
    \/ \E p \in Payloads(rev) : OnMessage(p)
    \/ OnError
    \/ OnClose
    \/ OnUnmounted
    \/ \E t \in Tickers : ToggleRow(t)
    \/ \E t \in Tickers : ToggleAccordion(t)
    \/ \E tab \in {"realtime", "strategic"} : SetActiveTab(tab)

Spec == Init /\ [][Next]_vars

\* the close event follows the error event in the same task
FairSpec == Spec /\ WF_vars(OnClose)

-----------------------------------------------------------------------------
(* Classes of inbound texts *)

ListOrAbsent(v) == v.k \in {"array", "undefined"}
IsEnvelope(p) == Parses(p) /\ JSONParse(p).k = "object"
TypeOf(p) == JSONParse(p).type
DataOf(p) == JSONParse(p).data

\* a REALTIME_UPDATE whose data is an object with each list a list or absent
WellFormedRealtime(p) ==
    /\ IsEnvelope(p)
    /\ TypeOf(p) = "REALTIME_UPDATE"
    /\ DataOf(p).k = "object"
    /\ ListOrAbsent(DataOf(p).new_opportunities)
    /\ ListOrAbsent(DataOf(p).sell_alerts)

\* a REALTIME_UPDATE with a list field that is present and no list
MistypedRealtime(p) ==
    /\ IsEnvelope(p)
    /\ TypeOf(p) = "REALTIME_UPDATE"
    /\ DataOf(p).k = "object"
    /\ ~(ListOrAbsent(DataOf(p).new_opportunities) /\ ListOrAbsent(DataOf(p).sell_alerts))

\* a STRATEGIC_UPDATE of the current shape (data is the list) and of the
\* legacy shape (data.strategic_opportunities is the list)
CurrentStrategic(p) ==
    IsEnvelope(p) /\ TypeOf(p) = "STRATEGIC_UPDATE" /\ DataOf(p).k = "array"
LegacyStrategic(p) ==
    /\ IsEnvelope(p)
    /\ TypeOf(p) = "STRATEGIC_UPDATE"
    /\ DataOf(p).k = "object"
    /\ DataOf(p).strategic_opportunities.k = "array"

\* text that does not parse, a value that is no envelope, an envelope without
\* type (the V40 protocol has no discriminator: there only the first two)
Malformed(r, p) ==
    \/ ~Parses(p)
    \/ ~IsEnvelope(p)
    \/ r # "V40" /\ TypeOf(p) = NoType

UnknownType(p) == IsEnvelope(p) /\ TypeOf(p) \notin {"REALTIME_UPDATE", "STRATEGIC_UPDATE"}

Typed(r) == r \in {"V45", "V50"}
Routed(e) == e.kind = "message"

-----------------------------------------------------------------------------
(* C1: right after a well-formed REALTIME_UPDATE is routed (typed            *)
(* revisions), the tactical slice is exactly data.new_opportunities, in the  *)
(* message's order, and the empty list when the field is absent, whatever    *)
(* the slice held before.                                                    *)
C1_TacticalIsNewOpportunities ==
    (Typed(rev) /\ Routed(event) /\ WellFormedRealtime(event.data)) =>
        opportunities =
            IF DataOf(event.data).new_opportunities.k = "undefined"
            THEN EmptyArray
            ELSE DataOf(event.data).new_opportunities

C1_Witness ==
    /\ rev = "V50"
    /\ Routed(event)
    /\ WellFormedRealtime(event.data)
    /\ DataOf(event.data).new_opportunities = Arr(<<"B", "A">>)
    /\ opportunities = Arr(<<"B", "A">>)

(* C2: right after a well-formed STRATEGIC_UPDATE is routed, the strategic   *)
(* slice is exactly data (HomeView.vue) or data.strategic_opportunities      *)
(* (the legacy revision): nothing of the previous snapshot is left.          *)
C2_StrategicIsSnapshot ==
    /\ (rev = "V50" /\ Routed(event) /\ CurrentStrategic(event.data)) =>
           strategicOpportunities = DataOf(event.data)
    /\ (rev = "V45" /\ Routed(event) /\ LegacyStrategic(event.data)) =>
           strategicOpportunities = Plain(DataOf(event.data).strategic_opportunities)

C2_Witness ==
    /\ rev = "V50"
    /\ Routed(event)
    /\ CurrentStrategic(event.data)
    /\ strategicOpportunities = Plain(Arr(<<"B">>))

(* C3: routing a malformed text changes none of the four slices.             *)
C3_MalformedChangesNothing ==
    [][(Routed(event') /\ Malformed(rev, event'.data)) => UNCHANGED slices]_vars

C3_Witness ==
    /\ rev = "V50"
    /\ Routed(event)
    /\ ~Parses(event.data)
    /\ opportunities = Arr(<<"A", "B">>)
    /\ sellAlerts = Arr(<<"B", "A">>)
    /\ strategicOpportunities = Plain(Arr(<<"B">>))
    /\ selectedTicker = "A"

(* C4 (as claimed): a REALTIME_UPDATE with a list field that is present and  *)
(* no list is dropped, the three feed slices keep their values.              *)
C4_MistypedIsDropped ==
    [][(rev = "V50" /\ Routed(event') /\ MistypedRealtime(event'.data))
          => UNCHANGED feed]_vars

(* C5 (as claimed): the strategic slice never holds a payload that is no     *)
(* list of strategic opportunities.                                          *)
C5_StrategicAlwaysList == Typed(rev) => IsArray(strategicOpportunities)

(* C6: routing an envelope whose type is neither REALTIME_UPDATE nor         *)
(* STRATEGIC_UPDATE changes no slice and not the connection status.          *)
C6_UnknownTypeIsNoOp ==
    [][(Typed(rev) /\ Routed(event') /\ UnknownType(event'.data))
          => UNCHANGED <<slices, connectionStatus>>]_vars

C6_Witness ==
    /\ rev = "V50"
    /\ Routed(event)
    /\ IsEnvelope(event.data)
    /\ TypeOf(event.data) = "HEARTBEAT"
    /\ opportunities = Arr(<<"B", "A">>)
    /\ strategicOpportunities = Plain(Arr(<<"B">>))

(* C7: the step that dispatches the close event sets the status to           *)
(* Disconnected and changes none of the four slices.                         *)
CloseDispatched ==
    /\ ~(readyState = "CLOSED" /\ pending = "none")
    /\ readyState' = "CLOSED" /\ pending' = "none"

C7_CloseKeepsSlices ==
    [][CloseDispatched => (connectionStatus' = "Disconnected" /\ UNCHANGED slices)]_vars

C7_Witness ==
    /\ connectionStatus = "Disconnected"
    /\ readyState = "CLOSED"
    /\ opportunities = Arr(<<"A", "B">>)
    /\ sellAlerts = Arr(<<"B">>)
    /\ strategicOpportunities = Plain(Arr(<<"A">>))
    /\ selectedTicker = "B"

(* C8: the status starts as Connecting and changes only along                *)
(* Connecting->Connected, Connected->Disconnected, Connecting->Error,        *)
(* Connected->Error and Error->Disconnected.                                 *)
StatusEdges ==
    {<<"Connecting", "Connected">>, <<"Connected", "Disconnected">>,
     <<"Connecting", "Error">>, <<"Connected", "Error">>, <<"Error", "Disconnected">>}

C8_StatusEdges ==
    /\ connectionStatus = "Connecting"
    /\ [][connectionStatus' # connectionStatus
            => <<connectionStatus, connectionStatus'>> \in StatusEdges]_vars

C8_Witness == connectionStatus = "Disconnected" /\ pending = "none" /\ ~mounted

(* C9: whenever the status is Error it eventually becomes Disconnected, and  *)
(* Error is never entered again once it has been left.                       *)
C9_ErrorIsTransient ==
    /\ (connectionStatus = "Error") ~> (connectionStatus = "Disconnected")
    /\ [][(connectionStatus # "Error" /\ connectionStatus' = "Error")
            => connectionStatus \in {"Connecting", "Connected"}]_vars
    /\ [][connectionStatus = "Error" => connectionStatus' \in {"Error", "Disconnected"}]_vars

C9_Witness == connectionStatus = "Error" /\ pending = "close"

(* C10 (as claimed): once the component is unmounted no step changes the     *)
(* tactical, sell-alert or strategic slice.                                  *)
C10_NoRoutingAfterTeardown == [][~mounted => UNCHANGED feed]_vars

\* C10 for the revisions that register onUnmounted: the socket is closing or
\* closed from the unmount on, and the feed slices no longer change
TeardownWhereHooked ==
    [][(~mounted /\ ClosesOnUnmount(rev)) => UNCHANGED feed]_vars
ChannelClosedWhereHooked ==
    (~mounted /\ ClosesOnUnmount(rev)) => readyState \in {"CLOSING", "CLOSED"}

-----------------------------------------------------------------------------
(* Selection *)

Clicked(e, t) == e.kind = "click" /\ e.ticker = t
NoSelection == "none"

(* C11: a click on ticker t that is not selected selects t, whatever was     *)
(* selected before; t stays selected until the next click; a click on t      *)
(* while t is selected leaves nothing selected.                              *)
C11_ToggleTwiceIsNone ==
    /\ [][\A t \in Tickers : (Clicked(event', t) /\ selectedTicker # t)
                                => selectedTicker' = t]_vars
    /\ [][event'.kind # "click" => UNCHANGED selectedTicker]_vars
    /\ [][\A t \in Tickers : (Clicked(event', t) /\ selectedTicker = t)
                                => selectedTicker' = NoSelection]_vars

C11_Witness ==
    /\ rev = "V50"
    /\ activeTab = "strategic"
    /\ Clicked(event, "A")
    /\ event.was = "A"
    /\ selectedTicker = NoSelection

Expanded(v, selected) ==
    IF IsArray(v) THEN {i \in 1..Len(v.items) : v.items[i] = selected} ELSE {}
ExpandedRows == Expanded(opportunities, selectedTicker)
ExpandedCards == Expanded(strategicOpportunities, selectedTicker)

(* C13 (as claimed): at most one row of the tactical table and at most one   *)
(* card of the strategic list is expanded, whatever snapshot is stored       *)
(* (HomeView.vue).                                                           *)
C13_AtMostOneExpanded ==
    rev = "V50" => (Cardinality(ExpandedRows) <= 1 /\ Cardinality(ExpandedCards) <= 1)

\* C13 for snapshots that name no ticker twice
UniqueTickers(v) ==
    \A i, j \in 1..Len(v.items) : v.items[i] = v.items[j] => i = j
OneExpandedWhereUnique ==
    /\ UniqueTickers(opportunities) => Cardinality(ExpandedRows) <= 1
    /\ UniqueTickers(strategicOpportunities) => Cardinality(ExpandedCards) <= 1

-----------------------------------------------------------------------------
(* Sell alerts *)

(* C14: right after a well-formed REALTIME_UPDATE is routed by a revision    *)
(* that replaces, the sell-alert slice is exactly data.sell_alerts, and the  *)
(* empty list when the field is absent: nothing of the earlier alerts is     *)
(* left.                                                                     *)
C14_SellAlertsReplaced ==
    (Typed(rev) /\ Routed(event) /\ WellFormedRealtime(event.data)) =>
        sellAlerts =
            IF DataOf(event.data).sell_alerts.k = "undefined"
            THEN EmptyArray
            ELSE DataOf(event.data).sell_alerts

C14_Witness ==
    /\ rev = "V50"
    /\ Routed(event)
    /\ WellFormedRealtime(event.data)
    /\ DataOf(event.data).sell_alerts = Arr(<<"B", "A">>)
    /\ DataOf(event.data).new_opportunities = Undefined
    /\ sellAlerts = Arr(<<"B", "A">>)
    /\ opportunities = EmptyArray

\* a message of the V40 protocol with each of its two lists a list or absent
WellFormedV40(p) ==
    /\ IsEnvelope(p)
    /\ ListOrAbsent(JSONParse(p).new_opportunities)
    /\ ListOrAbsent(JSONParse(p).sell_alerts)

NonEmptyBatch(p) ==
    IsArray(JSONParse(p).sell_alerts) /\ Len(JSONParse(p).sell_alerts.items) > 0

(* C15: in the prepending revision a routed message with a non-empty         *)
(* sell_alerts batch puts the whole batch, in its order, in front of the     *)
(* whole history (nothing removed, nothing cut off); a message whose         *)
(* sell_alerts is absent or empty leaves the history as it is; the history   *)
(* never gets shorter.                                                       *)
C15_PrependKeepsHistory ==
    /\ [][(rev = "V40" /\ Routed(event') /\ WellFormedV40(event'.data)) =>
             sellAlerts' =
                 IF NonEmptyBatch(event'.data)
                 THEN Arr(JSONParse(event'.data).sell_alerts.items \o sellAlerts.items)
                 ELSE sellAlerts]_vars
    /\ [][rev = "V40" => Len(sellAlerts'.items) >= Len(sellAlerts.items)]_vars

C15_Witness ==
    /\ rev = "V40"
    /\ Routed(event)
    /\ WellFormedV40(event.data)
    /\ JSONParse(event.data).sell_alerts = Arr(<<"B", "A">>)
    /\ sellAlerts = Arr(<<"B", "A", "B">>)

-----------------------------------------------------------------------------
(* Connection *)

(* C16: once the status is Disconnected it stays Disconnected, and the one   *)
(* socket never goes back to connecting: no second connection is opened.     *)
C16_NeverReconnects ==
    /\ [][connectionStatus = "Disconnected" => connectionStatus' = "Disconnected"]_vars
    /\ [][readyState # "CONNECTING" => readyState' # "CONNECTING"]_vars

C16_Witness ==
    /\ connectionStatus = "Disconnected"
    /\ readyState = "CLOSED"
    /\ mounted
    /\ Clicked(event, "A")

\* an envelope of a known type whose data cannot be read: the property read
\* on undefined or null throws
Unreadable(r, p) ==
    /\ IsEnvelope(p)
    /\ ReadThrows(DataOf(p))
    /\ \/ TypeOf(p) = "REALTIME_UPDATE"
       \/ r = "V45" /\ TypeOf(p) = "STRATEGIC_UPDATE"

DecodeFails(r, p) == Malformed(r, p) \/ Unreadable(r, p)

ListOrEmpty(v) == IF v.k = "undefined" THEN EmptyArray ELSE v

\* the step applies the well-formed message event' carries to its slices
AppliedAsUsual ==
    /\ WellFormedRealtime(event'.data) =>
          /\ opportunities' = ListOrEmpty(DataOf(event'.data).new_opportunities)
          /\ sellAlerts' = ListOrEmpty(DataOf(event'.data).sell_alerts)
    /\ (rev = "V50" /\ CurrentStrategic(event'.data)) =>
          strategicOpportunities' = DataOf(event'.data)
    /\ (rev = "V45" /\ LegacyStrategic(event'.data)) =>
          strategicOpportunities' = Plain(DataOf(event'.data).strategic_opportunities)

(* C17: routing a text whose decoding fails changes neither the connection   *)
(* status nor the socket, and a message routed right after it is applied to  *)
(* its slice as usual (typed revisions, with and without try/catch).         *)
C17_DecodeFailureIsSurvived ==
    /\ [][(Typed(rev) /\ Routed(event') /\ DecodeFails(rev, event'.data)) =>
             UNCHANGED <<connectionStatus, readyState, pending, mounted>>]_vars
    /\ [][(Typed(rev) /\ Routed(event) /\ DecodeFails(rev, event.data)
               /\ Routed(event')) => AppliedAsUsual]_vars
    /\ []((Typed(rev) /\ Routed(event) /\ DecodeFails(rev, event.data)) =>
             (readyState = "OPEN" /\ pending = "none"))

C17_Witness ==
    /\ rev = "V45"
    /\ Routed(event)
    /\ ~Parses(event.data)
    /\ connectionStatus = "Connected"
    /\ readyState = "OPEN"
    /\ opportunities = Arr(<<"A", "B">>)
    /\ strategicOpportunities = Plain(Arr(<<"B">>))

Opened(e) == e.kind = "mounted"

(* C18 (as claimed): the socket is opened to the environment value whenever  *)
(* one is defined, and to the default exactly when it is not defined.        *)
C18_DefaultExactlyWhenAbsent ==
    Opened(event) =>
        event.wsUrl = IF event.env = Undefined THEN DefaultUrl ELSE event.env

(* C18 (amended): the socket is opened to the environment value when it is   *)
(* defined and not empty, and to the default exactly when it is not defined  *)
(* or is the empty string.                                                   *)
C18_DefaultWhenAbsentOrEmpty ==
    Opened(event) =>
        /\ event.env \notin {Undefined, EmptyString} => event.wsUrl = event.env
        /\ event.wsUrl = DefaultUrl <=> event.env \in {Undefined, EmptyString}

C18_Witness ==
    /\ rev = "V50"
    /\ Opened(event)
    /\ event.env = EmptyString
    /\ event.wsUrl = DefaultUrl
    /\ readyState = "CONNECTING"

-----------------------------------------------------------------------------
(* Routing order *)

\* the step routes a REALTIME_UPDATE with readable data and stores both of
\* its lists
RealtimeApplied ==
    /\ Routed(event')
    /\ IsEnvelope(event'.data)
    /\ TypeOf(event'.data) = "REALTIME_UPDATE"
    /\ ~ReadThrows(DataOf(event'.data))
    /\ opportunities' = OrEmpty(DataOf(event'.data).new_opportunities)
    /\ sellAlerts' = OrEmpty(DataOf(event'.data).sell_alerts)

\* the step routes a STRATEGIC_UPDATE and stores its payload
StrategicApplied ==
    /\ Routed(event')
    /\ IsEnvelope(event'.data)
    /\ TypeOf(event'.data) = "STRATEGIC_UPDATE"
    /\ \/ /\ rev = "V50"
          /\ strategicOpportunities' = OrEmptyData(DataOf(event'.data))
       \/ /\ rev = "V45"
          /\ ~ReadThrows(DataOf(event'.data))
          /\ strategicOpportunities' =
                Plain(OrEmpty(DataOf(event'.data).strategic_opportunities))

(* C19: the feed slices start empty; the tactical slice and the sell-alert   *)
(* slice change only in a step that routes one REALTIME_UPDATE and stores    *)
(* both lists of that message, the strategic slice only in a step that       *)
(* routes one STRATEGIC_UPDATE and stores its payload.  So each slice is     *)
(* the payload of the last routed message of its type, and the tactical and  *)
(* sell-alert slices are always of the same message (typed revisions).       *)
C19_SlicesFollowLastMessage ==
    /\ feed = <<EmptyArray, EmptyArray, Plain(EmptyArray)>>
    /\ [][Typed(rev) =>
            /\ <<opportunities, sellAlerts>>' # <<opportunities, sellAlerts>>
                  => RealtimeApplied
            /\ strategicOpportunities' # strategicOpportunities => StrategicApplied
            /\ (Routed(event') /\ WellFormedRealtime(event'.data)) => RealtimeApplied
            /\ (Routed(event') /\ rev = "V50" /\ CurrentStrategic(event'.data))
                  => StrategicApplied
            /\ (Routed(event') /\ rev = "V45" /\ LegacyStrategic(event'.data))
                  => StrategicApplied]_vars

C19_Witness ==
    /\ rev = "V50"
    /\ Routed(event)
    /\ WellFormedRealtime(event.data)
    /\ DataOf(event.data).new_opportunities = Arr(<<"A", "B">>)
    /\ DataOf(event.data).sell_alerts = Undefined
    /\ opportunities = Arr(<<"A", "B">>)
    /\ sellAlerts = EmptyArray
    /\ strategicOpportunities = Plain(Arr(<<"A", "A">>))

(* C20: a step that routes a REALTIME_UPDATE leaves the strategic slice as   *)
(* it is, a step that routes a STRATEGIC_UPDATE leaves the tactical and the  *)
(* sell-alert slice as they are (typed revisions).                           *)
C20_FeedGroupsIndependent ==
    [][(Typed(rev) /\ Routed(event') /\ IsEnvelope(event'.data)) =>
          /\ TypeOf(event'.data) = "REALTIME_UPDATE" => UNCHANGED strategicOpportunities
          /\ TypeOf(event'.data) = "STRATEGIC_UPDATE"
                => UNCHANGED <<opportunities, sellAlerts>>]_vars

C20_Witness ==
    /\ rev = "V50"
    /\ Routed(event)
    /\ CurrentStrategic(event.data)
    /\ strategicOpportunities = Plain(Arr(<<"A", "B">>))
    /\ opportunities = Arr(<<"B", "A">>)
    /\ sellAlerts = Arr(<<"B">>)

-----------------------------------------------------------------------------
(* Who writes what *)

(* C21: a step that is no message routing (open, error, close, unmount, a    *)
(* toggle, a tab switch) leaves the three feed slices as they are; a step    *)
(* that routes a message, whatever the message, leaves the selection and     *)
(* the connection status as they are.                                        *)
C21_OnlyRoutingWritesFeed ==
    /\ [][~Routed(event') => UNCHANGED feed]_vars
    /\ [][Routed(event') => UNCHANGED <<selectedTicker, connectionStatus>>]_vars

C21_Witness ==
    /\ rev = "V50"
    /\ connectionStatus = "Error"
    /\ event = NoEvent
    /\ opportunities = Arr(<<"A", "B">>)
    /\ sellAlerts = Arr(<<"B", "A">>)
    /\ strategicOpportunities = Plain(Arr(<<"B">>))

\* the four texts connectionStatus is ever assigned
ConnectionStatuses == {"Connecting", "Connected", "Error", "Disconnected"}

(* C22: at the start the three feed slices are empty and nothing is          *)
(* selected; in every reachable state the connection status is one of        *)
(* Connecting, Connected, Error, Disconnected.                               *)
C22_StatusDomainAndEmptyStart ==
    /\ opportunities = EmptyArray
    /\ sellAlerts = EmptyArray
    /\ strategicOpportunities = Plain(EmptyArray)
    /\ selectedTicker = NoSelection
    /\ [](connectionStatus \in ConnectionStatuses)

C22_Witness ==
    /\ connectionStatus = "Disconnected"
    /\ readyState = "CLOSED"
    /\ pending = "none"
    /\ selectedTicker = "A"
    /\ sellAlerts = Arr(<<"B">>)
    /\ ~mounted

\* the selection names a ticker that neither list holds
DanglingSelection ==
    /\ selectedTicker \in Tickers
    /\ selectedTicker \notin Rendered(opportunities)
    /\ selectedTicker \notin Rendered(strategicOpportunities)

(* C23: a step that routes a message never changes the selection, also when  *)
(* the selected ticker leaves the list; and when a routed snapshot brings    *)
(* the selected ticker back into the tactical list, its row is expanded in   *)
(* the state after that step, with no click.                                 *)
C23_SelectionOutlivesSnapshots ==
    /\ [][Routed(event') => UNCHANGED selectedTicker]_vars
    /\ [][(Routed(event') /\ selectedTicker \in Tickers
              /\ selectedTicker \notin Rendered(opportunities)
              /\ selectedTicker \in Rendered(opportunities'))
            => ExpandedRows' # {}]_vars

C23_Witness ==
    /\ rev = "V50"
    /\ Routed(event)
    /\ WellFormedRealtime(event.data)
    /\ DanglingSelection
    /\ selectedTicker = "B"
    /\ opportunities = Arr(<<"A", "A">>)

\* what a click on ticker t does to the one selection
ToggledTo(t) == selectedTicker' = IF selectedTicker = t THEN NoSelection ELSE t

(* C24: in HomeView.vue a click in the tactical table (toggleRow) and a      *)
(* click in the strategic accordion (toggleAccordion) act alike on the one   *)
(* selectedTicker: the clicked ticker is cleared when it is the selected     *)
(* one, in whichever view it was selected, and replaces any other            *)
(* selection; switching the view leaves the selection as it is.              *)
C24_SharedSelection ==
    /\ [][\A t \in Tickers :
            (rev = "V50" /\ activeTab = "realtime" /\ Clicked(event', t))
                => ToggledTo(t)]_vars
    /\ [][\A t \in Tickers :
            (rev = "V50" /\ activeTab = "strategic" /\ Clicked(event', t))
                => ToggledTo(t)]_vars
    /\ [][activeTab' # activeTab => UNCHANGED selectedTicker]_vars

C24_Witness ==
    /\ rev = "V50"
    /\ activeTab = "strategic"
    /\ event = ClickEvent("B", "A")
    /\ selectedTicker = "B"
    /\ opportunities = Arr(<<"A", "B">>)
    /\ strategicOpportunities = Plain(Arr(<<"B">>))

=============================================================================
